---- MODULE Spec2Model ----
(***************************************************************************)
(* async-prost: a length-delimited asynchronous transport for prost        *)
(* messages.  The model covers AsyncProstWriter (src/src/writer.rs),       *)
(* AsyncProstReader (src/src/reader.rs) and the byte pipe between them.    *)
(* Bytes are naturals in 0..255; a buffer is a sequence of bytes.          *)
(***************************************************************************)
EXTENDS Integers, Sequences, FiniteSets, TLC

\* ------------------------------------------------------------------------
\* Bounds of the model
\* ------------------------------------------------------------------------
\* longest script of values the application sends
MaxMsgs == 2
\* longest `id` field of a value of the general script
MaxField == 1
\* number of results (values, errors, end-of-sequence) the reader's caller collects
MaxOut == 4
\* extra capacity BytesMut::reserve may hand out beyond what was asked for
MaxSlack == 1

\* ------------------------------------------------------------------------
\* Program constants
\* ------------------------------------------------------------------------
BUFFER_SIZE == 8192
LEN_SIZE == 4
\* the target of the first fill of poll_next
FIRST_FILL == 5

\* ------------------------------------------------------------------------
\* Sequences of bytes
\* ------------------------------------------------------------------------
Take(s, n) == SubSeq(s, 1, n)

Drop(s, n) == SubSeq(s, n + 1, Len(s))

IsPrefix(p, s) == Len(p) <= Len(s) /\ Take(s, Len(p)) = p

\* ------------------------------------------------------------------------
\* prost::Message for the Event of the tests: two `bytes` fields, tags 1, 2
\* ------------------------------------------------------------------------
Event(id, data) == [id |-> id, data |-> data]

DefaultEvent == Event(<<>>, <<>>)

\* key byte of a length-delimited field: (tag << 3) | 2
KeyOf(tag) == tag * 8 + 2

\* a bytes field is omitted when empty, else key, one-byte varint length, bytes
EncodeField(tag, b) == IF b = <<>> THEN <<>> ELSE <<KeyOf(tag), Len(b)>> \o b

\* Message::encode
Encode(v) == EncodeField(1, v.id) \o EncodeField(2, v.data)

\* Message::encoded_len
EncodedLen(v) == Len(Encode(v))

\* Message::decode, merging fields into acc until the bytes are used up.
\* Yields [ok, v].  Key 0 and wire types 3, 4, 6, 7 are errors, a field
\* running past the end is an error, unknown fields are skipped.
RECURSIVE DecodeInto(_, _)
DecodeInto(b, acc) ==
    IF b = <<>> THEN [ok |-> TRUE, v |-> acc]
    ELSE LET key == b[1]
             tag == key \div 8
             wt  == key % 8
             bad == [ok |-> FALSE, v |-> DefaultEvent]
         IN IF tag = 0 \/ key >= 128 THEN bad
            ELSE IF wt = 2 THEN
                   IF Len(b) < 2 \/ b[2] >= 128 \/ Len(b) < 2 + b[2] THEN bad
                   ELSE LET body == SubSeq(b, 3, 2 + b[2])
                            rest == Drop(b, 2 + b[2])
                        IN IF tag = 1 THEN DecodeInto(rest, [acc EXCEPT !.id = body])
                           ELSE IF tag = 2 THEN DecodeInto(rest, [acc EXCEPT !.data = body])
                           ELSE DecodeInto(rest, acc)
            ELSE IF tag \in {1, 2} THEN bad
            ELSE IF wt = 0 THEN
                   IF Len(b) < 2 \/ b[2] >= 128 THEN bad ELSE DecodeInto(Drop(b, 2), acc)
            ELSE IF wt = 1 THEN
                   IF Len(b) < 9 THEN bad ELSE DecodeInto(Drop(b, 9), acc)
            ELSE IF wt = 5 THEN
                   IF Len(b) < 5 THEN bad ELSE DecodeInto(Drop(b, 5), acc)
            ELSE bad

Decode(b) == DecodeInto(b, DefaultEvent)

\* ------------------------------------------------------------------------
\* byteorder::NetworkEndian
\* ------------------------------------------------------------------------
\* variant: the four bytes least significant first
WriteU32_LittleEndian(n) ==
    << n % 256, (n \div 256) % 256, (n \div 65536) % 256, (n \div 16777216) % 256 >>

\* `as u32` then WriteBytesExt::write_u32::<NetworkEndian>: the four low
\* bytes of n, most significant first (the % 256 of the first byte is the
\* truncation to 32 bits)
WriteU32(n) ==
    << (n \div 16777216) % 256, (n \div 65536) % 256, (n \div 256) % 256, n % 256 >>

\* NetworkEndian::read_u32 of the first four bytes
ReadU32(b) == b[1] * 16777216 + b[2] * 65536 + b[3] * 256 + b[4]

\* ------------------------------------------------------------------------
\* ProstWriterFor::append
\* ------------------------------------------------------------------------
AppendAsync(buffer, item) ==
    LET size == EncodedLen(item)
    IN buffer \o WriteU32(size) \o Encode(item)

\* variant: the SYNC writer prefixes the length as the ASYNC writer does
AppendSync_Prefixed(buffer, item) == buffer \o WriteU32(EncodedLen(item)) \o Encode(item)

AppendSync(buffer, item) == buffer \o Encode(item)

append(dest, buffer, item) ==
    IF dest = "async" THEN AppendAsync(buffer, item) ELSE AppendSync(buffer, item)

\* ------------------------------------------------------------------------
\* Sink::poll_flush as a function of the writer's fields.  The connection
\* chooses how many bytes k it takes before it stops being ready or fails,
\* and how its own flush ends.  An outcome is the writer's fields after the
\* poll, the bytes handed to the connection (put), the result, and the
\* stage the poll returned from.
\* ------------------------------------------------------------------------
\* variant: a suspended poll forgets how far it got, so the next one writes
\* the same bytes again
PollFlushOutcomes_Rewrite(buffer, wr) ==
    LET rem == Len(buffer) - wr
    IN    { [buffer |-> buffer, written |-> wr,
             put |-> SubSeq(buffer, wr + 1, wr + k), res |-> r, stage |-> "write"]
            : k \in 0..(rem - 1), r \in {"Pending", "Err"} }
     \cup { [buffer |-> <<>>, written |-> 0,
             put |-> SubSeq(buffer, wr + 1, Len(buffer)), res |-> r, stage |-> "flush"]
            : r \in {"Ready", "Pending", "Err"} }

\* variant: `if` for `while`: one write attempt, then the buffer is cleared
\* and the connection flushed whatever the attempt took
PollFlushOutcomes_OneWrite(buffer, wr) ==
    LET rem == Len(buffer) - wr
    IN    { [buffer |-> buffer, written |-> wr,
             put |-> <<>>, res |-> r, stage |-> "write"]
            : r \in IF rem > 0 THEN {"Pending", "Err"} ELSE {} }
     \cup { [buffer |-> <<>>, written |-> 0,
             put |-> SubSeq(buffer, wr + 1, wr + k), res |-> r, stage |-> "flush"]
            : k \in (IF rem > 0 THEN 1 ELSE 0)..rem, r \in {"Ready", "Pending", "Err"} }

\* variant: the buffer is cleared only when the connection's flush is ready
PollFlushOutcomes_ClearAfterFlush(buffer, wr) ==
    LET rem == Len(buffer) - wr
    IN    { [buffer |-> buffer, written |-> wr + k,
             put |-> SubSeq(buffer, wr + 1, wr + k), res |-> r, stage |-> "write"]
            : k \in 0..(rem - 1), r \in {"Pending", "Err"} }
     \cup { [buffer |-> IF r = "Ready" THEN <<>> ELSE buffer,
             written |-> IF r = "Ready" THEN 0 ELSE Len(buffer),
             put |-> SubSeq(buffer, wr + 1, Len(buffer)), res |-> r, stage |-> "flush"]
            : r \in {"Ready", "Pending", "Err"} }

\* variant: the buffer is cleared but the cursor is left where it was
PollFlushOutcomes_KeepsCursor(buffer, wr) ==
    LET rem == Len(buffer) - wr
    IN    { [buffer |-> buffer, written |-> wr + k,
             put |-> SubSeq(buffer, wr + 1, wr + k), res |-> r, stage |-> "write"]
            : k \in 0..(rem - 1), r \in {"Pending", "Err"} }
     \cup { [buffer |-> <<>>, written |-> Len(buffer),
             put |-> SubSeq(buffer, wr + 1, Len(buffer)), res |-> r, stage |-> "flush"]
            : r \in {"Ready", "Pending", "Err"} }

\* variant: a failed write attempt starts the buffer over
PollFlushOutcomes_ErrRewinds(buffer, wr) ==
    LET rem == Len(buffer) - wr
    IN    { [buffer |-> buffer, written |-> IF r = "Err" THEN 0 ELSE wr + k,
             put |-> SubSeq(buffer, wr + 1, wr + k), res |-> r, stage |-> "write"]
            : k \in 0..(rem - 1), r \in {"Pending", "Err"} }
     \cup { [buffer |-> <<>>, written |-> 0,
             put |-> SubSeq(buffer, wr + 1, Len(buffer)), res |-> r, stage |-> "flush"]
            : r \in {"Ready", "Pending", "Err"} }

PollFlushOutcomes(buffer, wr) ==
    LET rem == Len(buffer) - wr
    IN    { [buffer |-> buffer, written |-> wr + k,
             put |-> SubSeq(buffer, wr + 1, wr + k), res |-> r, stage |-> "write"]
            : k \in 0..(rem - 1), r \in {"Pending", "Err"} }
     \cup { [buffer |-> <<>>, written |-> 0,
             put |-> SubSeq(buffer, wr + 1, Len(buffer)), res |-> r, stage |-> "flush"]
            : r \in {"Ready", "Pending", "Err"} }

\* ------------------------------------------------------------------------
\* BytesMut::reserve: the capacities the buffer may have afterwards
\* ------------------------------------------------------------------------
\* variant: reserve looks at the capacity alone, not at what is in use
Reserve_IgnoresLen(len, cap, additional) ==
    IF cap >= additional THEN {cap}
    ELSE { additional + s : s \in 0..MaxSlack }

Reserve(len, cap, additional) ==
    IF cap - len >= additional THEN {cap}
    ELSE { len + additional + s : s \in 0..MaxSlack }

Min(a, b) == IF a <= b THEN a ELSE b

\* ------------------------------------------------------------------------
\* AsyncProstReader::fill as a function of the buffer's length and capacity,
\* the target, the bytes the connection still has to deliver (avail) and
\* whether the connection is at end-of-input once they are delivered (eof).
\* An outcome is the result, the number k of bytes adopted into the buffer
\* and the buffer's capacity afterwards.  `rest` is dropped on return, so
\* the buffer keeps the capacity of what it holds.
\* ------------------------------------------------------------------------
\* variant: a connection with nothing to deliver right now is taken for one
\* at end-of-input
FillOutcomes_WouldBlockIsEof(len, cap, target, avail, eof) ==
    IF len >= target THEN { [res |-> "Filled", k |-> 0, cap |-> cap] }
    ELSE LET caps == IF cap < target THEN Reserve(len, cap, target - cap) ELSE {cap}
         IN UNION {
              LET max == c - len
                  top == Min(max, avail)
              IN    { [res |-> "Filled", k |-> k, cap |-> len + k]
                      : k \in (target - len)..top }
               \cup { [res |-> "Pending", k |-> k, cap |-> len + k]
                      : k \in { j \in 0..top : len + j < target } }
               \cup { [res |-> IF len + k = 0 THEN "Eof" ELSE "BrokenPipe",
                       k |-> k, cap |-> len + k]
                      : k \in { j \in 0..top : /\ len + j < target
                                                /\ \/ j = max
                                                   \/ j = avail } }
              : c \in caps }

\* variant: the zero-byte read is judged by what the buffer held when fill
\* was entered (had) instead of by what it holds now
FillOutcomes_HadEmpty(len, cap, target, avail, eof) ==
    IF len >= target THEN { [res |-> "Filled", k |-> 0, cap |-> cap] }
    ELSE LET caps == IF cap < target THEN Reserve(len, cap, target - cap) ELSE {cap}
         IN UNION {
              LET max == c - len
                  top == Min(max, avail)
              IN    { [res |-> "Filled", k |-> k, cap |-> len + k]
                      : k \in (target - len)..top }
               \cup { [res |-> "Pending", k |-> k, cap |-> len + k]
                      : k \in { j \in 0..top : len + j < target } }
               \cup { [res |-> IF len = 0 THEN "Eof" ELSE "BrokenPipe",
                       k |-> k, cap |-> len + k]
                      : k \in { j \in 0..top : /\ len + j < target
                                                /\ \/ j = max
                                                   \/ eof /\ j = avail } }
              : c \in caps }

FillOutcomes(len, cap, target, avail, eof) ==
    IF len >= target THEN { [res |-> "Filled", k |-> 0, cap |-> cap] }
    ELSE LET caps == IF cap < target THEN Reserve(len, cap, target - cap) ELSE {cap}
         IN UNION {
              LET max == c - len
                  top == Min(max, avail)
              IN    { [res |-> "Filled", k |-> k, cap |-> len + k]
                      : k \in (target - len)..top }
               \cup { [res |-> "Pending", k |-> k, cap |-> len + k]
                      : k \in { j \in 0..top : len + j < target } }
               \cup { [res |-> IF len + k = 0 THEN "Eof" ELSE "BrokenPipe",
                       k |-> k, cap |-> len + k]
                      : k \in { j \in 0..top : /\ len + j < target
                                                /\ \/ j = max
                                                   \/ eof /\ j = avail } }
              : c \in caps }

\* AsyncProstReader::fill up to its first read: the room (rest.capacity())
\* the connection may be offered when the buffer is short of the target
FillRooms(len, cap, target) ==
    LET caps == IF cap < target THEN Reserve(len, cap, target - cap) ELSE {cap}
    IN { c - len : c \in caps }

\* ------------------------------------------------------------------------
\* AsyncProstReader::poll_next, lines 95-99: the buffer holds the whole
\* message; drop the prefix, decode, drop the body.
\* ------------------------------------------------------------------------
Consume(buffer, cap, message_size) ==
    LET b4 == Drop(buffer, LEN_SIZE)
        d  == Decode(Take(b4, message_size))
    IN IF d.ok
       THEN [buffer |-> Drop(b4, message_size), cap |-> cap - LEN_SIZE - message_size,
             res |-> "Value", v |-> d.v]
       ELSE [buffer |-> b4, cap |-> cap - LEN_SIZE, res |-> "Decode", v |-> DefaultEvent]

\* ------------------------------------------------------------------------
\* AsyncProstReader::poll_next as a function of the reader's fields and of
\* the bytes src the connection still has to deliver.  An outcome is the
\* reader's fields after the poll, the number of bytes taken from the
\* connection and the result.
\* ------------------------------------------------------------------------
\* variant: the prefix is dropped as soon as it has been read, before the
\* body is known to be there
PollNextOutcomes_AdvanceEarly(buffer, cap, src, eof) ==
    UNION {
      IF o1.res # "Filled"
      THEN { [buffer |-> buffer \o Take(src, o1.k), cap |-> o1.cap, taken |-> o1.k,
              res |-> o1.res, v |-> DefaultEvent] }
      ELSE LET b1 == buffer \o Take(src, o1.k)
               message_size == ReadU32(b1)
               src1 == Drop(src, o1.k)
           IN { LET b2 == b1 \o Take(src1, o2.k)
                IN IF o2.res = "Filled"
                   THEN LET c == Consume(b2, o2.cap, message_size)
                        IN [buffer |-> c.buffer, cap |-> c.cap, taken |-> o1.k + o2.k,
                            res |-> c.res, v |-> c.v]
                   ELSE [buffer |-> Drop(b2, LEN_SIZE), cap |-> o2.cap - LEN_SIZE,
                         taken |-> o1.k + o2.k, res |-> o2.res, v |-> DefaultEvent]
                : o2 \in FillOutcomes(Len(b1), o1.cap, message_size + LEN_SIZE,
                                      Len(src1), eof) }
      : o1 \in FillOutcomes(Len(buffer), cap, FIRST_FILL, Len(src), eof) }

PollNextOutcomes(buffer, cap, src, eof) ==
    UNION {
      IF o1.res # "Filled"
      THEN { [buffer |-> buffer \o Take(src, o1.k), cap |-> o1.cap, taken |-> o1.k,
              res |-> o1.res, v |-> DefaultEvent] }
      ELSE LET b1 == buffer \o Take(src, o1.k)
               message_size == ReadU32(b1)
               src1 == Drop(src, o1.k)
           IN { LET b2 == b1 \o Take(src1, o2.k)
                IN IF o2.res = "Filled"
                   THEN LET c == Consume(b2, o2.cap, message_size)
                        IN [buffer |-> c.buffer, cap |-> c.cap, taken |-> o1.k + o2.k,
                            res |-> c.res, v |-> c.v]
                   ELSE [buffer |-> b2, cap |-> o2.cap, taken |-> o1.k + o2.k,
                         res |-> o2.res, v |-> DefaultEvent]
                : o2 \in FillOutcomes(Len(b1), o1.cap, message_size + LEN_SIZE,
                                      Len(src1), eof) }
      : o1 \in FillOutcomes(Len(buffer), cap, FIRST_FILL, Len(src), eof) }

\* ------------------------------------------------------------------------
\* Frame<H, T> (src/src/frame.rs) with the types of tests/framed.rs:
\* Header {tag: uint64, field 1} and Body {data: bytes, field 1}.
\* Option<H> is [some, tag]; Either<Vec<u8>, T> is [left, raw, data].
\* ------------------------------------------------------------------------
None == [some |-> FALSE, tag |-> 0]

Some(t) == [some |-> TRUE, tag |-> t]

Left(v) == [some |-> TRUE, left |-> TRUE, raw |-> v, data |-> <<>>]

Right(d) == [some |-> TRUE, left |-> FALSE, raw |-> <<>>, data |-> d]

\* Frame.body = None, as Frame::default() has it
NoBody == [some |-> FALSE, left |-> FALSE, raw |-> <<>>, data |-> <<>>]

\* Header::default()
DefaultTag == 0

\* ShallDecodeBody::shall_decode_body.  "even" is the Header of the tests;
\* "odd" is a header type that implements the trait the other way round, so
\* that its default value says not to decode.
ShallDecodeBody(ty, t) == IF ty = "even" THEN t % 2 = 0 ELSE t % 2 = 1

\* Message::encode of Header: a uint64 field is omitted when 0, else key
\* (1 << 3) | 0 and a one-byte varint
EncodeHeader(t) == IF t = 0 THEN <<>> ELSE <<8, t>>

\* Message::encode of Body
EncodeBody(d) == EncodeField(1, d)

\* skipping one field of an unknown tag: [ok, rest]
SkipField(b) ==
    LET wt == b[1] % 8
        bad == [ok |-> FALSE, rest |-> <<>>]
    IN IF wt = 0 THEN
            IF Len(b) < 2 \/ b[2] >= 128 THEN bad ELSE [ok |-> TRUE, rest |-> Drop(b, 2)]
       ELSE IF wt = 1 THEN
            IF Len(b) < 9 THEN bad ELSE [ok |-> TRUE, rest |-> Drop(b, 9)]
       ELSE IF wt = 2 THEN
            IF Len(b) < 2 \/ b[2] >= 128 \/ Len(b) < 2 + b[2] THEN bad
            ELSE [ok |-> TRUE, rest |-> Drop(b, 2 + b[2])]
       ELSE IF wt = 5 THEN
            IF Len(b) < 5 THEN bad ELSE [ok |-> TRUE, rest |-> Drop(b, 5)]
       ELSE bad

\* Message::decode of Header: [ok, tag]
RECURSIVE DecodeHeaderInto(_, _)
DecodeHeaderInto(b, acc) ==
    IF b = <<>> THEN [ok |-> TRUE, tag |-> acc]
    ELSE LET key == b[1]
             bad == [ok |-> FALSE, tag |-> DefaultTag]
         IN IF key \div 8 = 0 \/ key >= 128 THEN bad
            ELSE IF key \div 8 = 1 THEN
                   IF key % 8 # 0 \/ Len(b) < 2 \/ b[2] >= 128 THEN bad
                   ELSE DecodeHeaderInto(Drop(b, 2), b[2])
            ELSE LET k == SkipField(b)
                 IN IF k.ok THEN DecodeHeaderInto(k.rest, acc) ELSE bad

DecodeHeader(b) == DecodeHeaderInto(b, DefaultTag)

\* Message::decode of Body: [ok, data]
RECURSIVE DecodeBodyInto(_, _)
DecodeBodyInto(b, acc) ==
    IF b = <<>> THEN [ok |-> TRUE, data |-> acc]
    ELSE LET key == b[1]
             bad == [ok |-> FALSE, data |-> <<>>]
         IN IF key \div 8 = 0 \/ key >= 128 THEN bad
            ELSE IF key \div 8 = 1 THEN
                   IF key % 8 # 2 \/ Len(b) < 2 \/ b[2] >= 128 \/ Len(b) < 2 + b[2] THEN bad
                   ELSE DecodeBodyInto(Drop(b, 2 + b[2]), SubSeq(b, 3, 2 + b[2]))
            ELSE LET k == SkipField(b)
                 IN IF k.ok THEN DecodeBodyInto(k.rest, acc) ELSE bad

DecodeBody(b) == DecodeBodyInto(b, <<>>)

\* what Framed::decode returns: Ok(frame), Err(decode error) or a panic
DecodeResult(res, header, body) == [res |-> res, header |-> header, body |-> body]

\* variant: the header is decoded but not asked; the body is always decoded
decode_Eager(ty, buf, header_len) ==
    IF header_len > Len(buf) THEN DecodeResult("Panic", None, Right(<<>>))
    ELSE LET h == IF header_len > 0 THEN DecodeHeader(Take(buf, header_len))
                  ELSE [ok |-> TRUE, tag |-> DefaultTag]
             msg == DecodeBody(Drop(buf, header_len))
         IN IF ~h.ok \/ ~msg.ok THEN DecodeResult("Err", None, Right(<<>>))
            ELSE DecodeResult("Ok", Some(h.tag), Right(msg.data))

\* variant: with header_len = 0 the frame is left without a header
decode_HeaderAbsent(ty, buf, header_len) ==
    IF header_len > Len(buf) THEN DecodeResult("Panic", None, Right(<<>>))
    ELSE LET h == IF header_len > 0 THEN DecodeHeader(Take(buf, header_len))
                  ELSE [ok |-> TRUE, tag |-> DefaultTag]
             decode_body == IF header_len > 0 THEN ShallDecodeBody(ty, h.tag) ELSE TRUE
             body_buf == Drop(buf, header_len)
             msg == DecodeBody(body_buf)
             header == IF header_len > 0 THEN Some(h.tag) ELSE None
         IN IF ~h.ok THEN DecodeResult("Err", None, Right(<<>>))
            ELSE IF decode_body
                 THEN IF msg.ok THEN DecodeResult("Ok", header, Right(msg.data))
                      ELSE DecodeResult("Err", None, Right(<<>>))
                 ELSE DecodeResult("Ok", header, Left(body_buf))

\* Framed::decode for Frame<H, T>
decode(ty, buf, header_len) ==
    IF header_len > Len(buf) THEN DecodeResult("Panic", None, Right(<<>>))
    ELSE LET h == IF header_len > 0 THEN DecodeHeader(Take(buf, header_len))
                  ELSE [ok |-> TRUE, tag |-> DefaultTag]
             decode_body == IF header_len > 0 THEN ShallDecodeBody(ty, h.tag) ELSE TRUE
             body_buf == Drop(buf, header_len)
             msg == DecodeBody(body_buf)
         IN IF ~h.ok THEN DecodeResult("Err", None, Right(<<>>))
            ELSE IF decode_body
                 THEN IF msg.ok THEN DecodeResult("Ok", Some(h.tag), Right(msg.data))
                      ELSE DecodeResult("Err", None, Right(<<>>))
                 ELSE DecodeResult("Ok", Some(h.tag), Left(body_buf))

\* bitwise or of two naturals
RECURSIVE BitOr(_, _)
BitOr(a, b) ==
    IF a = 0 THEN b
    ELSE IF b = 0 THEN a
    ELSE (IF a % 2 = 1 \/ b % 2 = 1 THEN 1 ELSE 0) + 2 * BitOr(a \div 2, b \div 2)

\* (header_len as u32) << 24 | body_len, where header_len has gone through
\* `as u8`.  The u32 is kept as its high byte and its low 24 bits.
LengthWord(header_size, body_size) ==
    [ hi |-> BitOr(header_size % 256, (body_size \div 16777216) % 256),
      lo |-> body_size % 16777216 ]

\* the encoded lengths of a frame's header and body
HeaderSize(f) == IF f.header.some THEN Len(EncodeHeader(f.header.tag)) ELSE 0

BodySize(f) ==
    IF ~f.body.some THEN 0
    ELSE IF f.body.left THEN Len(f.body.raw) ELSE Len(EncodeBody(f.body.data))

\* Framed::encoded_len for Frame<H, T>
encoded_len(f) == LengthWord(HeaderSize(f), BodySize(f))

\* Framed::encode for Frame<H, T>
encode(f) ==
    LET header == IF f.header.some THEN EncodeHeader(f.header.tag) ELSE <<>>
    IN IF ~f.body.some THEN [res |-> "Panic", bytes |-> header]
       ELSE [res |-> "Ok",
             bytes |-> header \o (IF f.body.left THEN f.body.raw
                                                ELSE EncodeBody(f.body.data))]

\* ------------------------------------------------------------------------
\* State
\* ------------------------------------------------------------------------
VARIABLES
    todo,       \* the values the application has still to send
    accepted,   \* history: the values accepted so far, each with the mode it was accepted in
    dest,       \* the writer's destination marker D: "sync" or "async"
    wbuffer,    \* AsyncProstWriter.buffer
    written,    \* AsyncProstWriter.written
    wres,       \* the writer's last operation, its result and the stage it returned from
    stalled,    \* history: some poll of flush or close suspended after a partial write
    wire,       \* every byte the writer has handed to the connection, in order
    flushedTo,  \* the number of bytes of wire covered by a completed connection flush
    conn,       \* the connection's write side: "open", "shutdown" or "dropped"
    rbuffer,    \* AsyncProstReader.buffer
    rcap,       \* the capacity of AsyncProstReader.buffer
    rpos,       \* the number of bytes of wire the reader has taken from the connection
    out,        \* the results poll_next has returned, Pending left out
    rres,       \* the result of the last poll_next
    partial,    \* history: some poll_next suspended with a message partly buffered
    orig,       \* the AsyncProstStream that tcp_split was called on: what it is left with
    splitAt,    \* history: whether read bytes (m) and unwritten bytes (k) were pending at tcp_split
    task,       \* the echo task: "idle" (there is none), "running", "done" or "failed"
    swbuffer,   \* the echo task's write half: AsyncProstWriter.buffer
    swritten,   \* the echo task's write half: AsyncProstWriter.written
    wire2,      \* every byte the echo task has handed to the connection, in order
    conn2,      \* the connection's side from the echo task to the client
    crbuffer,   \* the client's AsyncProstReader.buffer
    crcap,      \* the capacity of the client's AsyncProstReader.buffer
    cpos,       \* the number of bytes of wire2 the client has taken from the connection
    cout,       \* the results the client's poll_next has returned, Pending left out
    hty,        \* the header type H of Frame<H, T>, named by its ShallDecodeBody
    frame,      \* the Frame a sender holds
    fbuf,       \* what Framed::encode has put into the buffer
    fhl,        \* the header_len Framed::decode was called with
    fret,       \* what Framed::decode has returned
    fsize,      \* the encoded lengths of the header and of the body of a frame
    fword,      \* what Framed::encoded_len has returned for them
    polling,    \* a call of Sink::poll_flush is inside its write loop
    sink        \* the connection's write side: "any", or "full" (every write reports 0 bytes)

vars == << todo, accepted, dest, wbuffer, written, wres, stalled, wire, flushedTo, conn,
           rbuffer, rcap, rpos, out, rres, partial, orig, splitAt,
           task, swbuffer, swritten, wire2, conn2, crbuffer, crcap, cpos, cout,
           hty, frame, fbuf, fhl, fret, fsize, fword, polling, sink >>

\* what only the echo task and the client's read side change
echoVars == << task, swbuffer, swritten, wire2, conn2, crbuffer, crcap, cpos, cout >>

\* no echo task
NoEcho ==
    /\ task = "idle"
    /\ swbuffer = <<>>
    /\ swritten = 0
    /\ wire2 = <<>>
    /\ conn2 = "open"
    /\ crbuffer = <<>>
    /\ crcap = BUFFER_SIZE
    /\ cpos = 0
    /\ cout = <<>>

\* what only a poll_flush followed attempt by attempt changes
loopVars == << polling, sink >>

\* every poll_flush is taken as a whole
NoLoop == polling = FALSE /\ sink = "any"

\* what only the operations on frames change
frameVars == << hty, frame, fbuf, fhl, fret, fsize, fword >>

\* no frame in hand
NoFrame ==
    /\ hty = "even"
    /\ frame = [header |-> None, body |-> NoBody]
    /\ fbuf = [done |-> FALSE, res |-> "none", bytes |-> <<>>]
    /\ fhl = 0
    /\ fret = DecodeResult("none", None, Right(<<>>))
    /\ fsize = [h |-> 0, b |-> 0]
    /\ fword = [done |-> FALSE, hi |-> 0, lo |-> 0]

\* what only the operations of the duplex stream change
streamVars == << orig, splitAt >>

writerVars == << todo, accepted, dest, wbuffer, written, wres, stalled, wire, flushedTo, conn >>

readerVars == << rbuffer, rcap, rpos, out, rres, partial >>

\* ------------------------------------------------------------------------
\* The values the application sends
\* ------------------------------------------------------------------------
Payload == {1, 2}

BytesUpTo(n) == UNION { [1..k -> Payload] : k \in 0..n }

ValueSet == { Event(i, <<>>) : i \in BytesUpTo(MaxField) }

Scripts == UNION { [1..k -> ValueSet] : k \in 0..MaxMsgs }

\* the three values of Scenario A: encoded lengths 5, 13 and 0
ScenarioA ==
    << Event(<<1, 2, 3>>, <<>>),
       Event(<<>>, <<104, 101, 108, 108, 111, 32, 119, 111, 114, 108, 100>>),
       Event(<<>>, <<>>) >>

\* ------------------------------------------------------------------------
\* Init: AsyncProstWriter::from and AsyncProstReader::new over one pipe
\* ------------------------------------------------------------------------
InitState ==
    /\ accepted = <<>>
    /\ dest = "sync"
    /\ wbuffer = <<>>
    /\ written = 0
    /\ wres = [op |-> "new", res |-> "Ready", stage |-> "none"]
    /\ stalled = FALSE
    /\ wire = <<>>
    /\ flushedTo = 0
    /\ conn = "open"
    /\ rbuffer = <<>>
    /\ rcap = BUFFER_SIZE
    /\ rpos = 0
    /\ out = <<>>
    /\ rres = "none"
    /\ partial = FALSE
    /\ orig = [split |-> FALSE, rbuffer |-> <<>>, rcap |-> 0, wbuffer |-> <<>>, written |-> 0]
    /\ splitAt = [m |-> FALSE, k |-> FALSE]
    /\ NoEcho
    /\ NoLoop

Init == todo \in Scripts /\ InitState /\ NoFrame

InitA == todo = ScenarioA /\ InitState /\ NoFrame

\* the scripts of the duplex stream: the i-th value has an id made of bytes i
NumberedScripts ==
    { [i \in 1..k |-> Event([j \in 1..MaxField |-> i], <<>>)] : k \in 0..MaxMsgs }

\* AsyncProstStream::from(stream).for_async(): an ASYNC stream with nothing pending
InitStream ==
    /\ todo \in NumberedScripts
    /\ accepted = <<>>
    /\ dest = "async"
    /\ wbuffer = <<>>
    /\ written = 0
    /\ wres = [op |-> "for_async", res |-> "Ready", stage |-> "none"]
    /\ stalled = FALSE
    /\ wire = <<>>
    /\ flushedTo = 0
    /\ conn = "open"
    /\ rbuffer = <<>>
    /\ rcap = BUFFER_SIZE
    /\ rpos = 0
    /\ out = <<>>
    /\ rres = "none"
    /\ partial = FALSE
    /\ orig = [split |-> FALSE, rbuffer |-> <<>>, rcap |-> 0, wbuffer |-> <<>>, written |-> 0]
    /\ splitAt = [m |-> FALSE, k |-> FALSE]
    /\ NoEcho
    /\ NoLoop
    /\ NoFrame

\* ------------------------------------------------------------------------
\* Writer
\* ------------------------------------------------------------------------
\* variant: the rebuilt writer starts its cursor over
ForAsync_ResetsCursor ==
    /\ conn = "open"
    /\ dest = "sync"
    /\ dest' = "async"
    /\ written' = 0
    /\ wres' = [op |-> "for_async", res |-> "Ready", stage |-> "none"]
    /\ UNCHANGED << todo, accepted, wbuffer, stalled, wire, flushedTo, conn >>
    /\ UNCHANGED readerVars
    /\ UNCHANGED streamVars
    /\ UNCHANGED echoVars
    /\ UNCHANGED frameVars
    /\ UNCHANGED loopVars

\* AsyncProstWriter::for_async: make_for keeps buffer and written
ForAsync ==
    /\ conn = "open"
    /\ dest = "sync"
    /\ dest' = "async"
    /\ wres' = [op |-> "for_async", res |-> "Ready", stage |-> "none"]
    /\ UNCHANGED << todo, accepted, wbuffer, written, stalled, wire, flushedTo, conn >>
    /\ UNCHANGED readerVars
    /\ UNCHANGED streamVars
    /\ UNCHANGED echoVars
    /\ UNCHANGED frameVars
    /\ UNCHANGED loopVars

\* variant: the writer is not ready while bytes wait in its buffer
PollReady_Backpressure(buffer, wr) == IF wr < Len(buffer) THEN "Pending" ELSE "Ready"

\* Sink::poll_ready
PollReady(buffer, wr) == "Ready"

\* Sink::poll_ready then Sink::start_send
StartSend ==
    /\ conn = "open"
    /\ todo # <<>>
    /\ PollReady(wbuffer, written) = "Ready"
    /\ wbuffer' = append(dest, wbuffer, Head(todo))
    /\ accepted' = Append(accepted, [v |-> Head(todo), dest |-> dest])
    /\ todo' = Tail(todo)
    /\ wres' = [op |-> "start_send", res |-> "Ready", stage |-> "none"]
    /\ UNCHANGED << dest, written, stalled, wire, flushedTo, conn >>
    /\ UNCHANGED readerVars
    /\ UNCHANGED streamVars
    /\ UNCHANGED echoVars
    /\ UNCHANGED frameVars
    /\ UNCHANGED loopVars

\* Sink::poll_flush
PollFlush ==
    /\ conn = "open"
    /\ \E o \in PollFlushOutcomes(wbuffer, written) :
         /\ wbuffer' = o.buffer
         /\ written' = o.written
         /\ wire' = wire \o o.put
         /\ flushedTo' = IF o.stage = "flush" /\ o.res = "Ready" THEN Len(wire') ELSE flushedTo
         /\ stalled' = (stalled \/ (o.stage = "write" /\ o.res = "Pending" /\ o.written > 0))
         /\ wres' = [op |-> "poll_flush", res |-> o.res, stage |-> o.stage]
    /\ UNCHANGED << todo, accepted, dest, conn >>
    /\ UNCHANGED readerVars
    /\ UNCHANGED streamVars
    /\ UNCHANGED echoVars
    /\ UNCHANGED frameVars
    /\ UNCHANGED loopVars

\* variant: the shutdown does not wait for the flush to be ready
PollClose_NoFlushWait ==
    /\ conn = "open"
    /\ \E o \in PollFlushOutcomes(wbuffer, written) :
         /\ wbuffer' = o.buffer
         /\ written' = o.written
         /\ wire' = wire \o o.put
         /\ flushedTo' = IF o.stage = "flush" /\ o.res = "Ready" THEN Len(wire') ELSE flushedTo
         /\ stalled' = (stalled \/ (o.stage = "write" /\ o.res = "Pending" /\ o.written > 0))
         /\ IF o.res # "Err"
            THEN \E r \in {"Ready", "Pending", "Err"} :
                   /\ wres' = [op |-> "poll_close", res |-> r, stage |-> "shutdown"]
                   /\ conn' = IF r = "Ready" THEN "shutdown" ELSE conn
            ELSE /\ wres' = [op |-> "poll_close", res |-> o.res, stage |-> o.stage]
                 /\ conn' = conn
    /\ UNCHANGED << todo, accepted, dest >>
    /\ UNCHANGED readerVars
    /\ UNCHANGED streamVars
    /\ UNCHANGED echoVars
    /\ UNCHANGED frameVars
    /\ UNCHANGED loopVars

\* Sink::poll_close: poll_flush, and once it is ready the connection's poll_shutdown
PollClose ==
    /\ conn = "open"
    /\ \E o \in PollFlushOutcomes(wbuffer, written) :
         /\ wbuffer' = o.buffer
         /\ written' = o.written
         /\ wire' = wire \o o.put
         /\ flushedTo' = IF o.stage = "flush" /\ o.res = "Ready" THEN Len(wire') ELSE flushedTo
         /\ stalled' = (stalled \/ (o.stage = "write" /\ o.res = "Pending" /\ o.written > 0))
         /\ IF o.res = "Ready"
            THEN \E r \in {"Ready", "Pending", "Err"} :
                   /\ wres' = [op |-> "poll_close", res |-> r, stage |-> "shutdown"]
                   /\ conn' = IF r = "Ready" THEN "shutdown" ELSE conn
            ELSE /\ wres' = [op |-> "poll_close", res |-> o.res, stage |-> o.stage]
                 /\ conn' = conn
    /\ UNCHANGED << todo, accepted, dest >>
    /\ UNCHANGED readerVars
    /\ UNCHANGED streamVars
    /\ UNCHANGED echoVars
    /\ UNCHANGED frameVars
    /\ UNCHANGED loopVars

\* the writer is dropped: the connection closes with whatever was handed to it
DropWriter ==
    /\ conn = "open"
    /\ conn' = "dropped"
    /\ wres' = [op |-> "drop", res |-> "Ready", stage |-> "none"]
    /\ UNCHANGED << todo, accepted, dest, wbuffer, written, stalled, wire, flushedTo >>
    /\ UNCHANGED readerVars
    /\ UNCHANGED streamVars
    /\ UNCHANGED echoVars
    /\ UNCHANGED frameVars
    /\ UNCHANGED loopVars

\* ------------------------------------------------------------------------
\* Reader
\* ------------------------------------------------------------------------
\* the bytes the connection has still to deliver to the reader
Undelivered == Drop(wire, rpos)

\* the connection reports end-of-input once everything was delivered
AtEof == conn # "open"

\* Stream::poll_next
PollNext ==
    /\ Len(out) < MaxOut
    /\ \E o \in PollNextOutcomes(rbuffer, rcap, Undelivered, AtEof) :
         /\ rbuffer' = o.buffer
         /\ rcap' = o.cap
         /\ rpos' = rpos + o.taken
         /\ rres' = o.res
         /\ out' = IF o.res = "Pending" THEN out ELSE Append(out, [res |-> o.res, v |-> o.v])
         /\ partial' = (partial \/ (o.res = "Pending" /\ o.buffer # <<>>))
    /\ UNCHANGED writerVars
    /\ UNCHANGED streamVars
    /\ UNCHANGED echoVars
    /\ UNCHANGED frameVars
    /\ UNCHANGED loopVars

\* ------------------------------------------------------------------------
\* Duplex stream
\* ------------------------------------------------------------------------
\* variant: the write half is built with from and given the buffer, but not
\* the cursor
TcpSplit_ForgetCursor(rbuf, rc, wbuf, wr) ==
    [ reader |-> [buffer |-> rbuf, cap |-> Len(rbuf)],
      writer |-> [buffer |-> wbuf, written |-> 0],
      orig   |-> [split |-> TRUE, rbuffer |-> <<>>, rcap |-> rc - Len(rbuf),
                  wbuffer |-> <<>>, written |-> wr] ]

\* AsyncProstStream::tcp_split as a function of the stream's read buffer and
\* capacity, write buffer and cursor: the fields of the two halves and what
\* the stream itself is left with.  BytesMut::split and Vec::split_off(0)
\* move every byte out; `written` is copied and not reset.
TcpSplit(rbuf, rc, wbuf, wr) ==
    [ reader |-> [buffer |-> rbuf, cap |-> Len(rbuf)],
      writer |-> [buffer |-> wbuf, written |-> wr],
      orig   |-> [split |-> TRUE, rbuffer |-> <<>>, rcap |-> rc - Len(rbuf),
                  wbuffer |-> <<>>, written |-> wr] ]

\* AsyncProstStream::tcp_split: from here on the reader and the writer are the halves
Split ==
    /\ conn = "open"
    /\ ~orig.split
    /\ LET h == TcpSplit(rbuffer, rcap, wbuffer, written)
       IN /\ rbuffer' = h.reader.buffer
          /\ rcap' = h.reader.cap
          /\ wbuffer' = h.writer.buffer
          /\ written' = h.writer.written
          /\ orig' = h.orig
    /\ splitAt' = [m |-> rbuffer # <<>>, k |-> written < Len(wbuffer)]
    /\ wres' = [op |-> "tcp_split", res |-> "Ready", stage |-> "none"]
    /\ UNCHANGED << todo, accepted, dest, stalled, wire, flushedTo, conn >>
    /\ UNCHANGED << rpos, out, rres, partial >>
    /\ UNCHANGED echoVars
    /\ UNCHANGED frameVars
    /\ UNCHANGED loopVars

\* Sink::poll_flush on a writer whose fields are whatever they are: the
\* slice &buffer[written..] of the write loop panics when the cursor is
\* past the end of the buffer
PollFlushChecked(buffer, wr) ==
    IF wr > Len(buffer)
    THEN { [buffer |-> buffer, written |-> wr, put |-> <<>>, res |-> "Panic", stage |-> "write"] }
    ELSE PollFlushOutcomes(buffer, wr)

\* Sink::poll_flush on the stream that tcp_split was called on
OrigPollFlush ==
    /\ conn = "open"
    /\ orig.split
    /\ \E o \in PollFlushChecked(orig.wbuffer, orig.written) :
         /\ orig' = [orig EXCEPT !.wbuffer = o.buffer, !.written = o.written]
         /\ wire' = wire \o o.put
         /\ wres' = [op |-> "orig_poll_flush", res |-> o.res, stage |-> o.stage]
    /\ UNCHANGED << todo, accepted, dest, wbuffer, written, stalled, flushedTo, conn, splitAt >>
    /\ UNCHANGED readerVars
    /\ UNCHANGED echoVars
    /\ UNCHANGED frameVars
    /\ UNCHANGED loopVars

NextOrig ==
    StartSend \/ PollFlush \/ PollClose \/ DropWriter \/ PollNext \/ Split \/ OrigPollFlush

SpecOrig == InitStream /\ [][NextOrig]_vars

Next == ForAsync \/ StartSend \/ PollFlush \/ PollClose \/ DropWriter \/ PollNext

Spec == Init /\ [][Next]_vars

SpecA == InitA /\ [][Next]_vars

\* ------------------------------------------------------------------------
\* The echo of the tests: the client's stream sends the script and reads
\* the answers; the echo task splits its stream and forwards its read half
\* (rbuffer, rcap, rpos) into its write half (swbuffer, swritten).  The
\* connection of the echo task does not fail.
\* ------------------------------------------------------------------------
InitEcho ==
    /\ todo \in Scripts
    /\ accepted = <<>>
    /\ dest = "async"
    /\ wbuffer = <<>>
    /\ written = 0
    /\ wres = [op |-> "for_async", res |-> "Ready", stage |-> "none"]
    /\ stalled = FALSE
    /\ wire = <<>>
    /\ flushedTo = 0
    /\ conn = "open"
    /\ rbuffer = <<>>
    /\ rcap = 0
    /\ rpos = 0
    /\ out = <<>>
    /\ rres = "none"
    /\ partial = FALSE
    /\ orig = TcpSplit(<<>>, BUFFER_SIZE, <<>>, 0).orig
    /\ splitAt = [m |-> FALSE, k |-> FALSE]
    /\ task = "running"
    /\ swbuffer = <<>>
    /\ swritten = 0
    /\ wire2 = <<>>
    /\ conn2 = "open"
    /\ crbuffer = <<>>
    /\ crcap = BUFFER_SIZE
    /\ cpos = 0
    /\ cout = <<>>
    /\ NoFrame
    /\ NoLoop

\* r.forward(w), one turn of its loop: poll the read half; a value goes to
\* the write half with start_send; Pending polls the write half's flush and
\* suspends; end-of-sequence polls its close and, once that is ready, ends
\* the task; an error ends the task by panic (unwrap).  A task that ends
\* drops its stream, which closes the connection.
EchoForward ==
    /\ task = "running"
    /\ \E o \in PollNextOutcomes(rbuffer, rcap, Undelivered, AtEof) :
         /\ rbuffer' = o.buffer
         /\ rcap' = o.cap
         /\ rpos' = rpos + o.taken
         /\ rres' = o.res
         /\ partial' = (partial \/ (o.res = "Pending" /\ o.buffer # <<>>))
         /\ CASE o.res = "Value" ->
                   /\ swbuffer' = AppendAsync(swbuffer, o.v)
                   /\ UNCHANGED << task, swritten, wire2, conn2 >>
              [] o.res = "Pending" ->
                   \E f \in { g \in PollFlushOutcomes(swbuffer, swritten) : g.res # "Err" } :
                      /\ swbuffer' = f.buffer
                      /\ swritten' = f.written
                      /\ wire2' = wire2 \o f.put
                      /\ UNCHANGED << task, conn2 >>
              [] o.res = "Eof" ->
                   \E f \in { g \in PollFlushOutcomes(swbuffer, swritten) : g.res # "Err" } :
                      /\ swbuffer' = f.buffer
                      /\ swritten' = f.written
                      /\ wire2' = wire2 \o f.put
                      /\ \E r \in (IF f.res = "Ready" THEN {"Ready", "Pending"} ELSE {"Pending"}) :
                           /\ task' = IF r = "Ready" THEN "done" ELSE task
                           /\ conn2' = IF r = "Ready" THEN "shutdown" ELSE conn2
              [] OTHER ->
                   /\ task' = "failed"
                   /\ conn2' = "dropped"
                   /\ UNCHANGED << swbuffer, swritten, wire2 >>
    /\ UNCHANGED << out, orig, splitAt, crbuffer, crcap, cpos, cout >>
    /\ UNCHANGED writerVars
    /\ UNCHANGED frameVars
    /\ UNCHANGED loopVars

\* Stream::poll_next of the client's stream
ClientPollNext ==
    /\ Len(cout) < MaxOut
    /\ \E o \in PollNextOutcomes(crbuffer, crcap, Drop(wire2, cpos), conn2 # "open") :
         /\ crbuffer' = o.buffer
         /\ crcap' = o.cap
         /\ cpos' = cpos + o.taken
         /\ cout' = IF o.res = "Pending" THEN cout ELSE Append(cout, [res |-> o.res, v |-> o.v])
    /\ UNCHANGED << task, swbuffer, swritten, wire2, conn2 >>
    /\ UNCHANGED writerVars
    /\ UNCHANGED readerVars
    /\ UNCHANGED streamVars
    /\ UNCHANGED frameVars
    /\ UNCHANGED loopVars

NextEcho == StartSend \/ PollFlush \/ PollClose \/ EchoForward \/ ClientPollNext

SpecEcho == InitEcho /\ [][NextEcho]_vars

\* ------------------------------------------------------------------------
\* A peer that is not an AsyncProstWriter: it puts well-framed messages on
\* the connection whose bodies need not be encodings of an Event.
\* ------------------------------------------------------------------------
\* an Event with id 1; a body whose first key is 0; a field cut short
RawBodies == { <<10, 1, 1>>, <<0>>, <<10, 2, 1>> }

\* the bodies of a well-framed byte stream, in order
RECURSIVE Bodies(_)
Bodies(s) ==
    IF Len(s) < LEN_SIZE THEN <<>>
    ELSE LET n == ReadU32(s)
         IN <<SubSeq(s, LEN_SIZE + 1, LEN_SIZE + n)>> \o Bodies(Drop(s, LEN_SIZE + n))

PeerSend ==
    /\ conn = "open"
    /\ Len(Bodies(wire)) < MaxMsgs
    /\ \E b \in RawBodies : wire' = wire \o WriteU32(Len(b)) \o b
    /\ UNCHANGED << todo, accepted, dest, wbuffer, written, wres, stalled, flushedTo, conn >>
    /\ UNCHANGED readerVars
    /\ UNCHANGED streamVars
    /\ UNCHANGED echoVars
    /\ UNCHANGED frameVars
    /\ UNCHANGED loopVars

InitRaw == todo = <<>> /\ InitState /\ NoFrame

NextRaw == PeerSend \/ DropWriter \/ PollNext

SpecRaw == InitRaw /\ [][NextRaw]_vars

\* ------------------------------------------------------------------------
\* Frames: a sender holds a frame, takes its length word and encodes it; a
\* receiver decodes the bytes with some header_len.
\* ------------------------------------------------------------------------
\* largest header tag
MaxTag == 4

\* bodies handed over undecoded: an encoded Body, a byte that is no Body
RawBodySet == { <<>>, EncodeBody(<<1>>), <<0>> }

FrameSet ==
    { [header |-> h, body |-> b] :
        h \in {None} \cup { Some(t) : t \in 0..MaxTag },
        b \in {NoBody} \cup { Left(v) : v \in RawBodySet } \cup { Right(d) : d \in BytesUpTo(2) } }

InitFrame ==
    /\ todo = <<>>
    /\ InitState
    /\ hty \in {"even", "odd"}
    /\ frame \in FrameSet
    /\ fbuf = [done |-> FALSE, res |-> "none", bytes |-> <<>>]
    /\ fhl = 0
    /\ fret = DecodeResult("none", None, Right(<<>>))
    /\ fsize = [h |-> HeaderSize(frame), b |-> BodySize(frame)]
    /\ fword = [done |-> FALSE, hi |-> 0, lo |-> 0]

transportVars == << writerVars, readerVars, streamVars, echoVars, loopVars >>

\* Framed::encoded_len
FrameEncodedLen ==
    /\ ~fword.done
    /\ fword' = [done |-> TRUE, hi |-> encoded_len(frame).hi, lo |-> encoded_len(frame).lo]
    /\ UNCHANGED << hty, frame, fbuf, fhl, fret, fsize >>
    /\ UNCHANGED transportVars

\* Framed::encode
FrameEncode ==
    /\ ~fbuf.done
    /\ fbuf' = [done |-> TRUE, res |-> encode(frame).res, bytes |-> encode(frame).bytes]
    /\ UNCHANGED << hty, frame, fhl, fret, fsize, fword >>
    /\ UNCHANGED transportVars

\* Framed::decode of the encoded frame, with any header_len
FrameDecode ==
    /\ fbuf.done
    /\ fbuf.res = "Ok"
    /\ fret.res = "none"
    /\ \E header_len \in 0..(Len(fbuf.bytes) + 1) :
         /\ fhl' = header_len
         /\ fret' = decode(hty, fbuf.bytes, header_len)
    /\ UNCHANGED << hty, frame, fbuf, fsize, fword >>
    /\ UNCHANGED transportVars

NextFrame == FrameEncodedLen \/ FrameEncode \/ FrameDecode

SpecFrame == InitFrame /\ [][NextFrame]_vars

\* Framed::encoded_len, for frames given by the encoded lengths of their
\* header and body
HeaderSizes == { 0, 1, 2, 11, 255, 256, 258, 511 }

BodySizes == { 0, 1, 5, 16777215, 16777216, 16777221, 33554432, 50331653 }

InitLen ==
    /\ todo = <<>>
    /\ InitState
    /\ hty = "even"
    /\ frame = [header |-> None, body |-> NoBody]
    /\ fbuf = [done |-> FALSE, res |-> "none", bytes |-> <<>>]
    /\ fhl = 0
    /\ fret = DecodeResult("none", None, Right(<<>>))
    /\ fsize \in [h : HeaderSizes, b : BodySizes]
    /\ fword = [done |-> FALSE, hi |-> 0, lo |-> 0]

EncodedLenOfSizes ==
    /\ ~fword.done
    /\ fword' = [done |-> TRUE, hi |-> LengthWord(fsize.h, fsize.b).hi,
                  lo |-> LengthWord(fsize.h, fsize.b).lo]
    /\ UNCHANGED << hty, frame, fbuf, fhl, fret, fsize >>
    /\ UNCHANGED transportVars

NextLen == EncodedLenOfSizes

SpecLen == InitLen /\ [][NextLen]_vars

\* ------------------------------------------------------------------------
\* Changing the mode of a duplex stream: into_inner drops the reader and the
\* writer with what they have buffered, and a new reader and a new writer
\* are built on the connection.
\* ------------------------------------------------------------------------
Rebuild(d) ==
    [ dest |-> d, wbuffer |-> <<>>, written |-> 0, rbuffer |-> <<>>, rcap |-> BUFFER_SIZE ]

\* AsyncProstStream::for_async
StreamForAsync ==
    /\ conn = "open"
    /\ LET n == Rebuild("async")
       IN /\ dest' = n.dest
          /\ wbuffer' = n.wbuffer
          /\ written' = n.written
          /\ rbuffer' = n.rbuffer
          /\ rcap' = n.rcap
    /\ wres' = [op |-> "stream_for_async", res |-> "Ready", stage |-> "none"]
    /\ UNCHANGED << todo, accepted, stalled, wire, flushedTo, conn >>
    /\ UNCHANGED << rpos, out, rres, partial >>
    /\ UNCHANGED streamVars
    /\ UNCHANGED echoVars
    /\ UNCHANGED frameVars
    /\ UNCHANGED loopVars

\* AsyncProstStream::for_sync
StreamForSync ==
    /\ conn = "open"
    /\ LET n == Rebuild("sync")
       IN /\ dest' = n.dest
          /\ wbuffer' = n.wbuffer
          /\ written' = n.written
          /\ rbuffer' = n.rbuffer
          /\ rcap' = n.rcap
    /\ wres' = [op |-> "stream_for_sync", res |-> "Ready", stage |-> "none"]
    /\ UNCHANGED << todo, accepted, stalled, wire, flushedTo, conn >>
    /\ UNCHANGED << rpos, out, rres, partial >>
    /\ UNCHANGED streamVars
    /\ UNCHANGED echoVars
    /\ UNCHANGED frameVars
    /\ UNCHANGED loopVars

InitMode == todo \in NumberedScripts /\ InitState /\ NoFrame

NextMode ==
    \/ ForAsync \/ StreamForAsync \/ StreamForSync
    \/ StartSend \/ PollFlush \/ PollClose

SpecMode == InitMode /\ [][NextMode]_vars

\* ------------------------------------------------------------------------
\* Sink::poll_flush followed one write attempt at a time, on a writer whose
\* buffer holds the frames of a script.  The connection is "any": a ready
\* write takes at least one byte; or "full": every write is ready and
\* reports 0 bytes taken, as a sink with no space left does.
\* ------------------------------------------------------------------------
RECURSIVE Buffered(_)
Buffered(acc) ==
    IF acc = <<>> THEN <<>>
    ELSE AppendAsync(Buffered(SubSeq(acc, 1, Len(acc) - 1)), acc[Len(acc)].v)

InitLoop ==
    /\ todo = <<>>
    /\ accepted \in { [i \in 1..Len(s) |-> [v |-> s[i], dest |-> "async"]] : s \in Scripts }
    /\ dest = "async"
    /\ wbuffer = Buffered(accepted)
    /\ written = 0
    /\ wres = [op |-> "start_send", res |-> "Ready", stage |-> "none"]
    /\ stalled = FALSE
    /\ wire = <<>>
    /\ flushedTo = 0
    /\ conn = "open"
    /\ rbuffer = <<>>
    /\ rcap = BUFFER_SIZE
    /\ rpos = 0
    /\ out = <<>>
    /\ rres = "none"
    /\ partial = FALSE
    /\ orig = [split |-> FALSE, rbuffer |-> <<>>, rcap |-> 0, wbuffer |-> <<>>, written |-> 0]
    /\ splitAt = [m |-> FALSE, k |-> FALSE]
    /\ NoEcho
    /\ NoFrame
    /\ polling = FALSE
    /\ sink \in {"any", "full"}

\* poll_flush is called
FlushBegin ==
    /\ conn = "open"
    /\ ~polling
    /\ polling' = TRUE
    /\ wres' = [op |-> "poll_flush", res |-> "Running", stage |-> "write"]
    /\ UNCHANGED << todo, accepted, dest, wbuffer, written, stalled, wire, flushedTo, conn, sink >>
    /\ UNCHANGED << readerVars, streamVars, echoVars, frameVars >>

\* one turn of `while this.written != this.buffer.len()`: poll_write of the
\* slice past the cursor; Pending and an error return from poll_flush, n
\* bytes taken move the cursor and the loop goes on
WriteAttempt ==
    /\ polling
    /\ written # Len(wbuffer)
    /\ \/ /\ sink = "full"
          /\ written' = written + 0
          /\ UNCHANGED << wire, wres, polling, stalled >>
       \/ /\ sink = "any"
          /\ \E n \in 1..(Len(wbuffer) - written) :
               /\ written' = written + n
               /\ wire' = wire \o SubSeq(wbuffer, written + 1, written + n)
          /\ UNCHANGED << wres, polling, stalled >>
       \/ /\ sink = "any"
          /\ \E r \in {"Pending", "Err"} :
               /\ wres' = [op |-> "poll_flush", res |-> r, stage |-> "write"]
               /\ stalled' = (stalled \/ (r = "Pending" /\ written > 0))
          /\ polling' = FALSE
          /\ UNCHANGED << written, wire >>
    /\ UNCHANGED << todo, accepted, dest, wbuffer, flushedTo, conn, sink >>
    /\ UNCHANGED << readerVars, streamVars, echoVars, frameVars >>

\* the loop is over: clear, reset, and the connection's poll_flush
FlushFinish ==
    /\ polling
    /\ written = Len(wbuffer)
    /\ wbuffer' = <<>>
    /\ written' = 0
    /\ \E r \in {"Ready", "Pending", "Err"} :
         /\ wres' = [op |-> "poll_flush", res |-> r, stage |-> "flush"]
         /\ flushedTo' = IF r = "Ready" THEN Len(wire) ELSE flushedTo
    /\ polling' = FALSE
    /\ UNCHANGED << todo, accepted, dest, stalled, wire, conn, sink >>
    /\ UNCHANGED << readerVars, streamVars, echoVars, frameVars >>

NextLoop == FlushBegin \/ WriteAttempt \/ FlushFinish

\* a poll_flush that has been called keeps running
SpecLoop == InitLoop /\ [][NextLoop]_vars /\ WF_vars(NextLoop)

NextSplit == StartSend \/ PollFlush \/ PollClose \/ DropWriter \/ PollNext \/ Split

SpecSplit == InitStream /\ [][NextSplit]_vars

TypeOK ==
    /\ dest \in {"sync", "async"}
    /\ written \in 0..Len(wbuffer)
    /\ conn \in {"open", "shutdown", "dropped"}
    /\ rpos \in 0..Len(wire)
    /\ flushedTo \in 0..Len(wire)
    /\ Len(rbuffer) <= rcap

\* ------------------------------------------------------------------------
\* Vocabulary of the properties
\* ------------------------------------------------------------------------
\* n as four bytes, most significant first
BigEndian4(n) ==
    << (n \div 16777216) % 256, (n \div 65536) % 256, (n \div 256) % 256, n % 256 >>

\* the bytes one accepted value stands for on the wire, by the mode it was accepted in
FrameOf(a) ==
    IF a.dest = "async" THEN BigEndian4(Len(Encode(a.v))) \o Encode(a.v) ELSE Encode(a.v)

RECURSIVE Framed(_)
Framed(acc) == IF acc = <<>> THEN <<>> ELSE FrameOf(Head(acc)) \o Framed(Tail(acc))

AllAsync(acc) == \A i \in 1..Len(acc) : acc[i].dest = "async"

AllSync(acc) == \A i \in 1..Len(acc) : acc[i].dest = "sync"

\* the accepted values have all reached the connection and nothing else has
AtBoundary == wire = Framed(accepted)

\* the result in position i of out is the i-th accepted value
YieldsValue(i) == i <= Len(accepted) /\ out[i] = [res |-> "Value", v |-> accepted[i].v]

\* s is the first k bytes of one message, 1 <= k <= 4 + N - 1
Truncated(s) ==
    /\ Len(s) >= 1
    /\ Len(s) < LEN_SIZE \/ Len(s) < LEN_SIZE + ReadU32(s)

\* the results of a reader that has the whole of s in its buffer after one
\* read, followed by end-of-input when eof
RECURSIVE WholeRun(_, _)
WholeRun(s, eof) ==
    IF s = <<>> THEN (IF eof THEN << [res |-> "Eof", v |-> DefaultEvent] >> ELSE <<>>)
    ELSE IF Len(s) < FIRST_FILL \/ Len(s) < ReadU32(s) + LEN_SIZE
         THEN (IF eof THEN << [res |-> "BrokenPipe", v |-> DefaultEvent] >> ELSE <<>>)
         ELSE LET c == Consume(s, Len(s), ReadU32(s))
              IN << [res |-> c.res, v |-> c.v] >> \o WholeRun(c.buffer, eof)

\* ------------------------------------------------------------------------
\* C1 (as claimed): every sequence of values accepted by an ASYNC-mode
\* writer, flushed and followed by end-of-input, is yielded by the reader
\* exactly and in order, with no error: with the accepted values all on the
\* wire and the connection closed, every result is the value in its
\* position or, past the last value, end-of-sequence.
\* ------------------------------------------------------------------------
C1_RoundTrip ==
    (AllAsync(accepted) /\ todo = <<>> /\ AtBoundary /\ AtEof) =>
        \A i \in 1..Len(out) :
            IF i <= Len(accepted) THEN YieldsValue(i) ELSE out[i].res = "Eof"

\* ------------------------------------------------------------------------
\* C2: the results of the reader do not depend on how the bytes are cut
\* into reads or on where the connection is not ready: the results so far
\* are those of a reader that gets the same bytes in one read, the last of
\* them repeated when the reader is polled again at end-of-input.
\* ------------------------------------------------------------------------
C2_PartialReadRobust ==
    LET ref == WholeRun(wire, AtEof)
    IN \A i \in 1..Len(out) :
         IF i <= Len(ref) THEN out[i] = ref[i]
         ELSE AtEof /\ ref # <<>> /\ out[i] = ref[Len(ref)]

\* a run that suspended with a message partly buffered and went on to
\* the end of a stream of two messages
C2_Witness ==
    /\ partial
    /\ AtEof
    /\ Len(accepted) = 2
    /\ AllAsync(accepted)
    /\ Len(wire) > 2 * LEN_SIZE
    /\ Len(out) = Len(WholeRun(wire, TRUE))

\* ------------------------------------------------------------------------
\* C3 (as claimed): end-of-input at a message boundary, after zero or more
\* complete messages of any length N >= 0, yields every message and then
\* end-of-sequence, and no error.
\* ------------------------------------------------------------------------
C3_CleanEnd ==
    (AtEof /\ AtBoundary /\ AllAsync(accepted)) =>
        /\ \A i \in 1..Len(out) : out[i].res \notin {"BrokenPipe", "Decode"}
        /\ Len(out) > Len(accepted) =>
              /\ \A i \in 1..Len(accepted) : out[i].res = "Value"
              /\ out[Len(accepted) + 1].res = "Eof"

\* ------------------------------------------------------------------------
\* C4: when the connection is at end-of-input and what is left of the
\* stream is only the first k bytes of a message, 1 <= k <= 4 + N - 1, a poll
\* that returns a result returns the broken-pipe error: never a value,
\* never end-of-sequence.
\* ------------------------------------------------------------------------
C4_Truncation ==
    [][ (AtEof /\ Len(out') = Len(out) + 1 /\ Truncated(rbuffer \o Undelivered))
          => out'[Len(out')].res = "BrokenPipe" ]_vars

\* the connection ended inside the body of a message and the reader said so
C4_Witness ==
    /\ AtEof
    /\ rres = "BrokenPipe"
    /\ Undelivered = <<>>
    /\ Len(rbuffer) > LEN_SIZE
    /\ Len(rbuffer) < LEN_SIZE + ReadU32(rbuffer)
    /\ AllAsync(accepted)

\* ------------------------------------------------------------------------
\* C5 (as claimed): Scenario A.  An ASYNC-mode writer that accepts values of
\* encoded lengths 5, 13 and 0 and flushes hands the connection exactly
\* 00000005 <5 bytes> 0000000D <13 bytes> 00000000, and a reader fed these
\* bytes and then end-of-input yields the three values in order and then
\* end-of-sequence.
\* ------------------------------------------------------------------------
BytesA ==
    << 0, 0, 0, 5, 10, 3, 1, 2, 3,
       0, 0, 0, 13, 18, 11, 104, 101, 108, 108, 111, 32, 119, 111, 114, 108, 100,
       0, 0, 0, 0 >>

C5_ScenarioA ==
    (AllAsync(accepted) /\ Len(accepted) = 3 /\ written = 0 /\ wbuffer = <<>>) =>
        /\ wire = BytesA
        /\ AtEof =>
              \A i \in 1..Len(out) :
                  out[i] = IF i <= 3 THEN [res |-> "Value", v |-> ScenarioA[i]]
                           ELSE [res |-> "Eof", v |-> DefaultEvent]

\* ------------------------------------------------------------------------
\* C6: every value an ASYNC-mode writer accepts adds to the buffer its
\* encoded length as four big-endian bytes followed by its encoded bytes,
\* and as long as nothing was flushed the buffer is the concatenation of
\* these frames in accept order, with nothing else in it.
\* ------------------------------------------------------------------------
C6_AsyncWireFormat ==
    /\ [][ (Len(accepted') = Len(accepted) + 1 /\ dest = "async") =>
              wbuffer' = wbuffer \o BigEndian4(Len(Encode(Head(todo)))) \o Encode(Head(todo)) ]_vars
    /\ [] ( (AllAsync(accepted) /\ wire = <<>> /\ written = 0) => wbuffer = Framed(accepted) )

\* two values accepted in ASYNC mode, nothing flushed yet
C6_Witness ==
    /\ Len(accepted) = 2
    /\ AllAsync(accepted)
    /\ accepted[1].v # DefaultEvent
    /\ wire = <<>>
    /\ Len(wbuffer) > 2 * LEN_SIZE

\* ------------------------------------------------------------------------
\* C7: a writer built with from is in SYNC mode, and a SYNC-mode writer
\* adds to the buffer only the encoded bytes of each value it accepts, so
\* that unflushed output is the concatenation of the encodings in accept
\* order, with no length prefix.
\* ------------------------------------------------------------------------
RECURSIVE Encodings(_)
Encodings(acc) == IF acc = <<>> THEN <<>> ELSE Encode(Head(acc).v) \o Encodings(Tail(acc))

C7_SyncWireFormat ==
    /\ [][ (Len(accepted') = Len(accepted) + 1 /\ dest = "sync") =>
              wbuffer' = wbuffer \o Encode(Head(todo)) ]_vars
    /\ [] ( (AllSync(accepted) /\ wire = <<>> /\ written = 0) => wbuffer = Encodings(accepted) )
    /\ [] ( wres.op = "new" => dest = "sync" )

\* two values accepted in SYNC mode, nothing flushed yet
C7_Witness ==
    /\ Len(accepted) = 2
    /\ AllSync(accepted)
    /\ accepted[1].v # DefaultEvent
    /\ accepted[2].v # DefaultEvent
    /\ wire = <<>>
    /\ wbuffer # <<>>

\* ------------------------------------------------------------------------
\* C8: whatever the interleaving of accepts and flush polls, the bytes
\* handed to the connection are a prefix of the frames of the accepted
\* values in accept order, and together with the bytes of the buffer past
\* the cursor they are exactly these frames: nothing lost, duplicated or
\* reordered.
\* ------------------------------------------------------------------------
C8_WriteFifo ==
    /\ IsPrefix(wire, Framed(accepted))
    /\ wire \o Drop(wbuffer, written) = Framed(accepted)

\* a value accepted while a flush is suspended in the middle of the buffer
C8_Witness ==
    /\ wres.op = "start_send"
    /\ written > 0
    /\ written < Len(wbuffer)
    /\ Len(accepted) = 2
    /\ wire # <<>>

\* ------------------------------------------------------------------------
\* C9: a flush that reports completion has handed every accepted byte to
\* the connection and the connection's flush has completed; a poll of
\* flush hands the connection the bytes that follow the cursor and no
\* others, and leaves the cursor after them unless it emptied the buffer.
\* ------------------------------------------------------------------------
C9_FlushCompletion ==
    /\ [] ( (wres.op = "poll_flush" /\ wres.res = "Ready") =>
               /\ written = 0
               /\ wbuffer = <<>>
               /\ wire = Framed(accepted)
               /\ flushedTo = Len(wire) )
    /\ [][ LET n == Len(wire') - Len(wire)
           IN /\ n >= 0
              /\ wire' = wire \o SubSeq(wbuffer, written + 1, written + n)
              /\ \/ written' = written + n /\ Len(wbuffer') >= Len(wbuffer)
                 \/ written' = 0 /\ wbuffer' = <<>> /\ written + n = Len(wbuffer) ]_vars

\* a flush that completed after an earlier poll suspended in the middle of
\* the buffer
C9_Witness ==
    /\ stalled
    /\ wres.op = "poll_flush"
    /\ wres.res = "Ready"
    /\ Len(accepted) = 2
    /\ Len(wire) > 2 * LEN_SIZE
    /\ flushedTo = Len(wire)

\* ------------------------------------------------------------------------
\* C10: close shuts the connection down only in a poll in which every
\* accepted byte has been handed to the connection and the connection's
\* flush has completed; it completes only when the shutdown has; a flush
\* that fails or suspends returns from close with no shutdown.
\* ------------------------------------------------------------------------
C10_CloseOrdering ==
    /\ [] ( (wres.op = "poll_close" /\ wres.stage = "shutdown") =>
               /\ wbuffer = <<>>
               /\ written = 0
               /\ wire = Framed(accepted)
               /\ flushedTo = Len(wire) )
    /\ [] ( conn = "shutdown" =>
               /\ wres = [op |-> "poll_close", res |-> "Ready", stage |-> "shutdown"]
               /\ wire = Framed(accepted)
               /\ flushedTo = Len(wire) )
    /\ [] ( (wres.op = "poll_close" /\ wres.res = "Ready") => conn = "shutdown" )
    /\ [][ (wres'.op = "poll_close" /\ wres'.stage # "shutdown") => conn' = conn ]_vars

\* a close that completed after two values went out
C10_Witness ==
    /\ conn = "shutdown"
    /\ Len(accepted) = 2
    /\ Len(wire) > 2 * LEN_SIZE

\* ------------------------------------------------------------------------
\* C11: tcp_split hands the read half exactly the pending read bytes and the
\* write half exactly the pending write bytes with the cursor where it was,
\* so that the halves put on the wire the bytes, and yield the messages, the
\* unsplit stream would have: the wire and the rest of the write buffer are
\* still the frames of the accepted values, and the results of the read
\* half are still those of a reader given the wire in one read.
\* ------------------------------------------------------------------------
C11_SplitIntegrity ==
    /\ [][ (orig'.split /\ ~orig.split) =>
              /\ rbuffer' = rbuffer
              /\ wbuffer' = wbuffer
              /\ written' = written
              /\ dest' = dest ]_vars
    /\ [] ( wire \o Drop(wbuffer, written) = Framed(accepted) )
    /\ [] ( LET ref == WholeRun(wire, AtEof)
            IN \A i \in 1..Len(out) :
                 IF i <= Len(ref) THEN out[i] = ref[i]
                 ELSE AtEof /\ ref # <<>> /\ out[i] = ref[Len(ref)] )

\* a stream split with read bytes pending and a flush suspended in the
\* middle of the write buffer, whose halves then carried both values through
C11_Witness ==
    /\ orig.split
    /\ splitAt.m
    /\ splitAt.k
    /\ orig.written > 0
    /\ AllAsync(accepted)
    /\ Len(accepted) = 2
    /\ AtBoundary
    /\ Len(out) >= 2
    /\ YieldsValue(1)
    /\ YieldsValue(2)

\* ------------------------------------------------------------------------
\* C12 (as claimed): with a peer that forwards its read half into its write
\* half, a client that sends m1..mn receives exactly m1..mn in the order
\* sent, and once it has closed its write side its read side ends with
\* end-of-sequence: every result of the client is the value in its
\* position, or end-of-sequence after all n values once the client has
\* closed.
\* ------------------------------------------------------------------------
C12_Echo ==
    \A i \in 1..Len(cout) :
        IF i <= Len(accepted)
        THEN cout[i] = [res |-> "Value", v |-> accepted[i].v]
        ELSE /\ cout[i].res = "Eof"
             /\ conn = "shutdown"

\* ------------------------------------------------------------------------
\* C13 (as claimed): a decode error is fatal to the current message only.
\* For a well-framed byte stream the i-th result of the reader is about the
\* i-th message: a decode error if its body does not decode, its value if
\* it does, so that after an error for message i the next read yields
\* message i+1.
\* ------------------------------------------------------------------------
C13_DecodeErrorLocal ==
    \A i \in 1..Len(out) :
        i <= Len(Bodies(wire)) =>
            LET d == Decode(Bodies(wire)[i])
            IN out[i] = IF d.ok THEN [res |-> "Value", v |-> d.v]
                        ELSE [res |-> "Decode", v |-> DefaultEvent]

\* ------------------------------------------------------------------------
\* C14: a write error leaves the accounting intact.  A poll of flush (or of
\* the flush inside close) that returns the error of a connection write
\* leaves the write buffer as it was and the cursor on the first byte the
\* connection has not taken: the cursor has moved by exactly the bytes the
\* connection took in the attempts before the failed one, those bytes are
\* the ones the cursor passed, and the poll made no further attempt (bytes
\* remain unwritten).
\* ------------------------------------------------------------------------
WriteFailed == wres.res = "Err" /\ wres.stage = "write"

C14_WriteErrorAccounting ==
    /\ [][ WriteFailed' =>
              /\ wbuffer' = wbuffer
              /\ written' >= written
              /\ wire' = wire \o SubSeq(wbuffer, written + 1, written') ]_vars
    /\ [] ( WriteFailed => written < Len(wbuffer) )

\* a write failed after earlier attempts of the same poll had moved bytes
C14_Witness ==
    /\ wres = [op |-> "poll_flush", res |-> "Err", stage |-> "write"]
    /\ ~stalled
    /\ written > 0
    /\ Len(wire) = written

\* ------------------------------------------------------------------------
\* C15: frame header gating.  A frame whose header encodes to H > 0 bytes,
\* decoded with header_len = H: decode fails only if the header says to
\* decode a raw body that is no Body; otherwise it yields that header, a
\* TypedValue body exactly when the header's shall_decode_body is true (the
\* body the frame was built with, when that was a TypedValue), and a
\* RawBytes body, byte for byte the serialized body, exactly when it is
\* false.
\* ------------------------------------------------------------------------
Sent == frame.header.some /\ HeaderSize(frame) > 0

C16_NoHeader ==
    (fret.res = "Ok" /\ fhl = 0) =>
        /\ fret.header = None
        /\ fret.body = Right(DecodeBody(fbuf.bytes).data)

\* C16 (amended): decode with header_len = 0 succeeds exactly when the whole
\* payload decodes as a body, and then yields a frame whose header is
\* present and is the default header, and whose body is the TypedValue
\* decoded from the whole payload, whatever the default header's
\* shall_decode_body says.
C16_DefaultHeader ==
    (fret.res # "none" /\ fhl = 0) =>
        /\ fret.res = (IF DecodeBody(fbuf.bytes).ok THEN "Ok" ELSE "Err")
        /\ fret.res = "Ok" =>
              /\ fret.header = Some(DefaultTag)
              /\ fret.body = Right(DecodeBody(fbuf.bytes).data)

\* a frame of the tests: header tag 0, which encodes to no bytes, and a body
C16_Witness ==
    /\ frame = [header |-> Some(0), body |-> Right(<<1>>)]
    /\ fword = [done |-> TRUE, hi |-> 0, lo |-> 3]
    /\ fhl = 0
    /\ fret = DecodeResult("Ok", Some(0), Right(<<1>>))

\* ------------------------------------------------------------------------
\* C17 (as claimed): in every frame decode returns, for every header type
\* and every header_len, the body is RawBytes if and only if the frame
\* carries a header whose shall_decode_body is false.
\* ------------------------------------------------------------------------
C17_BodyInvariant ==
    fret.res = "Ok" =>
        (fret.body.left <=> (fret.header.some /\ ~ShallDecodeBody(hty, fret.header.tag)))

\* ------------------------------------------------------------------------
\* C18 (as claimed): the length word has the encoded length of the header
\* in its high 8 bits and the encoded length of the body in its low 24
\* bits, so that both are recovered from the word.
\* ------------------------------------------------------------------------
C18_LengthWord == fword.done => (fword.hi = fsize.h /\ fword.lo = fsize.b)

\* ------------------------------------------------------------------------
\* C19 (as claimed): the mode can be changed only before any data has been
\* exchanged under the prior mode: at a change of mode nothing has been
\* handed to the connection and nothing accepted is waiting in the buffer.
\* ------------------------------------------------------------------------
C19_SingleMode == [][ dest' # dest => (wire = <<>> /\ wbuffer = <<>>) ]_vars

\* C19 (amended): the mode can be changed in any state of the writer or
\* stream, and the change hands nothing to the connection.  for_async of a
\* writer keeps the buffer and the cursor, so what was accepted before is
\* still delivered, in the format it was accepted in; for_async and
\* for_sync of a stream discard what the writer has buffered.  A
\* value is framed when it is accepted, by the mode of that moment, and the
\* bytes handed to the connection are always the bytes of the buffer at the
\* cursor, whatever the mode at that moment.
ModeChange == wres'.op \in {"for_async", "stream_for_async", "stream_for_sync"} /\ wres' # wres

C19_ModeChange ==
    /\ [][ ModeChange =>
              /\ wire' = wire
              /\ accepted' = accepted
              /\ IF wres'.op = "for_async"
                 THEN wbuffer' = wbuffer /\ written' = written
                 ELSE wbuffer' = <<>> /\ written' = 0 ]_vars
    /\ [][ dest' # dest => ModeChange ]_vars
    /\ [][ accepted' # accepted =>
              /\ accepted' = Append(accepted, [v |-> Head(todo), dest |-> dest])
              /\ wbuffer' = wbuffer \o FrameOf([v |-> Head(todo), dest |-> dest]) ]_vars
    /\ [][ wire' # wire =>
              \E n \in 1..(Len(wbuffer) - written) :
                  wire' = wire \o SubSeq(wbuffer, written + 1, written + n) ]_vars

\* the mode of a writer changed with a flush suspended in the middle of the
\* buffer: bytes accepted in SYNC mode went out before the change and the
\* rest is left to the ASYNC writer
C19_Witness ==
    /\ wres.op = "for_async"
    /\ dest = "async"
    /\ written > 0
    /\ written < Len(wbuffer)
    /\ wire = Take(wbuffer, written)
    /\ AllSync(accepted)

\* ------------------------------------------------------------------------
\* C20: accept is always immediately accepted and does not touch the
\* connection.  poll_ready reports ready in every writer state, so a value
\* in hand can be accepted whatever waits in the buffer and whether or not
\* a flush is suspended; start_send appends the value's frame to the write
\* buffer and does nothing else: no byte is handed to the connection, no
\* flush, no shutdown, and the cursor stays.
\* ------------------------------------------------------------------------
C20_AcceptLocal ==
    /\ [] ( (conn = "open" /\ todo # <<>>) =>
               (PollReady(wbuffer, written) = "Ready" /\ ENABLED StartSend) )
    /\ [][ accepted' # accepted =>
              /\ wbuffer' = wbuffer \o FrameOf(accepted'[Len(accepted')])
              /\ written' = written
              /\ wire' = wire
              /\ flushedTo' = flushedTo
              /\ conn' = conn ]_vars

\* a value accepted while a flush is suspended with part of an earlier
\* frame still in the buffer
C20_Witness ==
    /\ wres.op = "start_send"
    /\ stalled
    /\ Len(wire) = written
    /\ Len(wbuffer) - written > Len(FrameOf(accepted[Len(accepted)]))

\* ------------------------------------------------------------------------
\* C21 (as claimed): the reader needs no byte beyond the current message's
\* own 4 + N bytes: a poll never suspends with the whole of the current
\* message (its prefix and the N bytes the prefix announces) in the buffer.
\* ------------------------------------------------------------------------
WholeMessageBuffered ==
    /\ Len(rbuffer) >= LEN_SIZE
    /\ Len(rbuffer) >= LEN_SIZE + ReadU32(rbuffer)

C21_ReadThresholds == rres = "Pending" => ~WholeMessageBuffered

\* ------------------------------------------------------------------------
\* C22: the write cursor is at most the length of the write buffer, in
\* every state reached by accepts, polls of flush (partial writes,
\* suspensions, errors) and polls of close.
\* ------------------------------------------------------------------------
C22_CursorInvariant == 0 <= written /\ written <= Len(wbuffer)

\* a poll of close failed one byte short of the end of a buffer that an
\* earlier poll had been suspended in
C22_Witness ==
    /\ wres = [op |-> "poll_close", res |-> "Err", stage |-> "write"]
    /\ stalled
    /\ written > 0
    /\ written = Len(wbuffer) - 1
    /\ Len(accepted) = MaxMsgs

\* ------------------------------------------------------------------------
\* C23 (as claimed): the write buffer is cleared only once the connection's
\* flush has completed: a poll whose connection flush is pending or has
\* failed does not clear the buffer.
\* ------------------------------------------------------------------------
FlushIncomplete == wres.stage = "flush" /\ wres.res \in {"Pending", "Err"}

C23_ClearAfterFlush == [][ (wbuffer # <<>> /\ wbuffer' = <<>>) => ~FlushIncomplete' ]_vars

\* C23 (amended): the write buffer is cleared and the cursor reset to zero
\* once the cursor equals the buffer length, that is in the poll that hands
\* the last pending byte to the connection, before the connection's flush
\* is polled and whatever that flush returns.  When a poll returns from the
\* connection's flush, ready, pending or failed, the buffer is empty, the
\* cursor is zero and every accepted byte is with the connection.
C23_ClearOnDrain ==
    /\ [][ (wbuffer # <<>> /\ wbuffer' = <<>>) =>
              /\ written' = 0
              /\ wire' = wire \o Drop(wbuffer, written)
              /\ wres'.stage \in {"flush", "shutdown"} ]_vars
    /\ [] ( wres.stage \in {"flush", "shutdown"} =>
               (wbuffer = <<>> /\ written = 0 /\ wire = Framed(accepted)) )

\* the connection's flush is pending and the buffer is already empty
C23_Witness ==
    /\ wres = [op |-> "poll_flush", res |-> "Pending", stage |-> "flush"]
    /\ accepted # <<>>
    /\ wbuffer = <<>>
    /\ written = 0
    /\ flushedTo < Len(wire)

\* ------------------------------------------------------------------------
\* C24: the read buffer is consumed only on a whole message.  A poll that
\* suspends, reports end-of-sequence or returns a transport error leaves
\* the buffer as it was, extended by exactly the bytes the connection
\* delivered during the poll; a poll that drops bytes from the front had
\* the 4 + N bytes of the current message in the buffer, and drops the
\* prefix and, when the body decodes, the body.
\* ------------------------------------------------------------------------
Delivered == SubSeq(wire, rpos + 1, rpos')

C25_OriginalEmpty ==
    orig.split =>
        /\ orig.rbuffer = <<>>
        /\ orig.wbuffer = <<>>
        /\ orig.written = 0
        /\ wres.op = "orig_poll_flush" => wres.res # "Panic"

\* ------------------------------------------------------------------------
\* C26: no false end-of-input.  In every state, for the first fill of the
\* next poll and for the second fill that follows any way the first can be
\* filled, the room offered to the connection is at least what is missing
\* for the target, hence at least 1; within the loop room and missing
\* shrink by the same bytes.  So a poll reports end-of-sequence or a broken
\* pipe only when the connection is at end-of-input and has delivered all.
\* ------------------------------------------------------------------------
RoomCovers(len, cap, target) ==
    len < target => \A room \in FillRooms(len, cap, target) : room >= target - len /\ room >= 1

C26_NoFalseEof ==
    /\ [] RoomCovers(Len(rbuffer), rcap, FIRST_FILL)
    /\ [] ( \A o1 \in FillOutcomes(Len(rbuffer), rcap, FIRST_FILL, Len(Undelivered), AtEof) :
               o1.res = "Filled" =>
                 LET b1 == rbuffer \o Take(Undelivered, o1.k)
                 IN RoomCovers(Len(b1), o1.cap, ReadU32(b1) + LEN_SIZE) )
    /\ [][ (out' # out /\ rres' \in {"Eof", "BrokenPipe"}) =>
              (AtEof /\ rpos' = Len(wire)) ]_vars

\* the read half of a split stream, suspended with the prefix and part of
\* a body in a buffer with no room to spare, after a message was consumed
C26_Witness ==
    /\ orig.split
    /\ splitAt.m
    /\ rres = "Pending"
    /\ Len(out) >= 1
    /\ Len(rbuffer) >= FIRST_FILL
    /\ Len(rbuffer) < ReadU32(rbuffer) + LEN_SIZE
    /\ rcap = Len(rbuffer)

\* ------------------------------------------------------------------------
\* C27 (as claimed): every single poll of flush terminates, whatever the
\* connection does, writes that report 0 bytes taken included: a call of
\* poll_flush that is in its write loop eventually returns.
\* ------------------------------------------------------------------------
C27_PollReturns == polling ~> ~polling

\* ------------------------------------------------------------------------
\* C28 (as claimed): encode agrees with encoded_len.  For every frame,
\* header present or absent, body RawBytes, TypedValue or absent, encode
\* succeeds and writes exactly H + B bytes, where H and B are the lengths
\* in the word encoded_len returns for it: the header's bytes, then the
\* body's.
\* ------------------------------------------------------------------------
C28_EncodeAgrees ==
    (fbuf.done /\ fword.done) =>
        /\ fbuf.res = "Ok"
        /\ Len(fbuf.bytes) = fword.hi + fword.lo
        /\ Take(fbuf.bytes, fword.hi) =
              (IF frame.header.some THEN EncodeHeader(frame.header.tag) ELSE <<>>)
        /\ Drop(fbuf.bytes, fword.hi) =
              (IF ~frame.body.some THEN <<>>
               ELSE IF frame.body.left THEN frame.body.raw ELSE EncodeBody(frame.body.data))

====
